---- MODULE Spec2Model ----
(***************************************************************************)
(* A model of arroy's Writer (src/src/writer.rs): one ordered key/value    *)
(* store keyed by u32, the writer handles prepared on it, and the          *)
(* operations prepare, add_item, del_item, clear and build with the        *)
(* recursive make_tree.  The key width is scaled down so that the reserved *)
(* key and the overflow of the id allocation are within reach.             *)
(***************************************************************************)
EXTENDS Integers, Sequences, FiniteSets, TLC

\* ------------------------------------------------------------------------
\* Bounds of the model
\* ------------------------------------------------------------------------
\* u32::MAX scaled down: keys are 0..U32_MAX, the last one is the reserved key.
U32_MAX == 4
\* The dimensions a writer can be prepared with are 1..MaxDim.
MaxDim == 2
\* Number of writer handles alive at once.
MaxWriters == 2
\* Number of operations in one behaviour.
MaxOps == 4

\* ------------------------------------------------------------------------
\* Program constants
\* ------------------------------------------------------------------------
\* let mut remaining_attempts = 3;
RemainingAttempts == 3
\* split_imbalance(..) < 0.95, in hundredths
AcceptImbalance == 95
\* split_imbalance(..) > 0.99, in hundredths
RandomImbalance == 99

VARIABLES
    database,   \* the store: a function from the keys present to their values
    writers,    \* writers[d]: number of live Writer handles with dimensions d
    prev,       \* the store as it was before the last operation
    last,       \* the last operation, its arguments and what it returned
    ops,        \* number of operations performed
    reader,     \* the last query of a Reader on the store and its answer
    node_ids,   \* a ConcurrentNodeIds generator and the ids it handed out
    leafs,      \* an ImmutableLeafs over the items and what get last returned
    call        \* the last call of a function of the builder and its result

vars == <<database, writers, prev, last, ops, reader, node_ids, leafs, call>>

\* What the writer's operations leave alone
others == <<reader, node_ids, leafs, call>>

\* Option::None for ids and for n_trees.
NONE == 0 - 1

Keys == 0..U32_MAX
Dims == 1..MaxDim
\* f32 components of the item vectors, scaled to two values.
Components == {0, 1}
\* The vectors a caller passes to add_item: every length, constant components.
Vectors == { [i \in 1..n |-> c] : n \in 1..MaxDim, c \in Components }
\* The n_trees a caller passes to build: None, Some(0), Some(1), Some(2)
TreeCounts == {NONE, 0, 1, 2}

\* ------------------------------------------------------------------------
\* Nodes
\* ------------------------------------------------------------------------
\* D::new_header(vector): NodeHeaderBinaryQuantizedEuclidean { bias: 0.0 }
new_header(vector) == [bias |-> 0]

Leaf(vector) == [kind |-> "Leaf", header |-> new_header(vector), vector |-> vector]

Descendants(indices) == [kind |-> "Descendants", descendants |-> indices]

SplitPlaneNormal(normal, left, right) ==
    [kind |-> "SplitPlaneNormal", normal |-> normal, left |-> left, right |-> right]

Metadata(dimensions, roots) ==
    [kind |-> "Metadata", dimensions |-> dimensions, root_nodes |-> roots]

\* ------------------------------------------------------------------------
\* The store (heed::Database<BEU32, NodeCodec>)
\* ------------------------------------------------------------------------
EmptyDb == <<>>

Present(db, key) == key \in DOMAIN db

\* database.put(wtxn, &key, &value): inserts or replaces
Put(db, key, value) == [k \in (DOMAIN db) \cup {key} |-> IF k = key THEN value ELSE db[k]]

\* database.delete(wtxn, &key)
Delete(db, key) == [k \in (DOMAIN db) \ {key} |-> db[k]]

\* database.len(wtxn)
DbLen(db) == Cardinality(DOMAIN db)

MaxOf(S) == CHOOSE m \in S : \A k \in S : k <= m

\* node.leaf(): Some for a Leaf, None for the other kinds
IsLeaf(node) == node.kind = "Leaf"

\* Writer::last_node_id: the greatest key of the store, None when it is empty
last_node_id(db) == IF DOMAIN db = {} THEN NONE ELSE MaxOf(DOMAIN db)

\* The reverse scan of clear_tree_nodes: delete from the last key down, stop at
\* the first leaf.
RECURSIVE RevScan(_)
RevScan(db) ==
    IF DOMAIN db = {} THEN db
    ELSE LET id == MaxOf(DOMAIN db)
         IN IF ~IsLeaf(db[id]) THEN RevScan(Delete(db, id)) ELSE db

\* clear_tree_nodes: delete the reserved key, then the reverse scan
clear_tree_nodes(db) == RevScan(Delete(db, U32_MAX))

\* reader::item_leaf as used by Writer::item_vector: the vector of the leaf
\* stored under the id, None when there is none
item_vector(db, item) ==
    IF Present(db, item) /\ IsLeaf(db[item]) THEN db[item].vector ELSE <<NONE>>

\* ------------------------------------------------------------------------
\* Operations
\* ------------------------------------------------------------------------
NoLog == <<>>

\* No Reader has been asked anything
NoQuery == [op |-> "none"]

\* No ImmutableLeafs has been created
NoLeafs == [op |-> "none"]

\* No function of the builder has been called on its own
NoCall == [fn |-> "none"]

\* No ConcurrentNodeIds has been created
NoNodeIds == [value |-> NONE, returned |-> <<>>]

Op(op, d, item, len, n, res, log) ==
    [op |-> op, d |-> d, item |-> item, len |-> len, n_trees |-> n, res |-> res, log |-> log]

LiveWriters == { d \in Dims : writers[d] > 0 }

NumWriters == LET RECURSIVE Sum(_)
                  Sum(S) == IF S = {} THEN 0
                            ELSE LET d == CHOOSE x \in S : TRUE IN writers[d] + Sum(S \ {d})
              IN Sum(Dims)

Init ==
    /\ database = EmptyDb
    /\ writers = [d \in Dims |-> 0]
    /\ prev = EmptyDb
    /\ last = Op("init", 0, 0, 0, NONE, "ok", NoLog)
    /\ ops = 0
    /\ reader = NoQuery
    /\ node_ids = NoNodeIds
    /\ leafs = NoLeafs
    /\ call = NoCall

\* Writer::prepare(wtxn, database, dimensions)
Prepare(d) ==
    /\ ops < MaxOps
    /\ NumWriters < MaxWriters
    /\ database' = clear_tree_nodes(database)
    /\ writers' = [writers EXCEPT ![d] = @ + 1]
    /\ prev' = database
    /\ last' = Op("prepare", d, 0, 0, NONE, "ok", NoLog)
    /\ ops' = ops + 1
    /\ UNCHANGED others

\* The assert_eq! of add_item: the vector's length against self.dimensions
DimensionsMatch(vector, d) == Len(vector) = d

\* Writer::add_item(wtxn, item, vector) on a writer with dimensions d
AddItem(d, item, vector) ==
    /\ ops < MaxOps
    /\ d \in LiveWriters
    /\ IF DimensionsMatch(vector, d)
       THEN /\ database' = Put(database, item, Leaf(vector))
            /\ last' = Op("add_item", d, item, Len(vector), NONE, "ok", NoLog)
       ELSE /\ database' = database
            /\ last' = Op("add_item", d, item, Len(vector), NONE, "panic", NoLog)
    /\ prev' = database
    /\ ops' = ops + 1
    /\ UNCHANGED writers
    /\ UNCHANGED others

\* Writer::del_item(wtxn, item)
DelItem(d, item) ==
    /\ ops < MaxOps
    /\ d \in LiveWriters
    /\ database' = Delete(database, item)
    /\ last' = Op("del_item", 0, item, 0, NONE,
                  IF Present(database, item) THEN "true" ELSE "false", NoLog)
    /\ prev' = database
    /\ ops' = ops + 1
    /\ UNCHANGED writers
    /\ UNCHANGED others

\* Writer::clear(wtxn)
Clear(d) ==
    /\ ops < MaxOps
    /\ d \in LiveWriters
    /\ database' = EmptyDb
    /\ last' = Op("clear", 0, 0, 0, NONE, "ok", NoLog)
    /\ prev' = database
    /\ ops' = ops + 1
    /\ UNCHANGED writers
    /\ UNCHANGED others

\* ------------------------------------------------------------------------
\* Writer::make_tree and Writer::build
\* ------------------------------------------------------------------------
MinOf2(a, b) == IF a <= b THEN a ELSE b

MaxOf2(a, b) == IF a >= b THEN a ELSE b

Sign(x) == IF x > 0 THEN 1 ELSE IF x < 0 THEN 0 - 1 ELSE 0

\* The keys of a set in ascending order, as the store iterates them
RECURSIVE Ascending(_)
Ascending(S) ==
    IF S = {} THEN <<>>
    ELSE LET m == MaxOf(S) IN Append(Ascending(S \ {m}), m)

\* u32::checked_add: None on overflow
checked_add(a, b) == IF a + b > U32_MAX THEN NONE ELSE a + b

\* new_node_id without the + 1: the last key itself is handed out again
new_node_id_reuse(db) ==
    LET last_id == last_node_id(db)
    IN IF last_id = NONE THEN 0 ELSE last_id

\* match self.last_node_id(wtxn)? { Some(last_id) => last_id.checked_add(1), None => 0 }
\* NONE stands for the failed unwrap.
new_node_id(db) ==
    LET last_id == last_node_id(db)
    IN IF last_id = NONE THEN 0 ELSE checked_add(last_id, 1)

\* What make_tree returns: how it ended, the store, the node id, and the
\* allocations it made in order (the id, the node written, the keys and the
\* item ids of the store at that moment).
Ret(status, db, id, log) == [status |-> status, db |-> db, id |-> id, log |-> log]

LeafIds(db) == { k \in DOMAIN db : IsLeaf(db[k]) }

\* Allocate the next id and put the node under it
WriteNode(db, node) ==
    LET item_id == new_node_id(db)
    IN IF item_id = NONE
       THEN Ret("panic", db, NONE, <<>>)
       ELSE Ret("ok", Put(db, item_id, node), item_id,
                <<[id |-> item_id, node |-> node, keys |-> DOMAIN db, items |-> LeafIds(db)]>>)

\* split_imbalance(left_len, right_len) as a fraction: f.max(1.0 - f) with
\* f = ls / (ls + rs + EPSILON), which is 1 when both are 0
split_imbalance(left_len, right_len) ==
    IF left_len + right_len = 0
    THEN [num |-> 1, den |-> 1]
    ELSE [num |-> MaxOf2(left_len, right_len), den |-> left_len + right_len]

\* imbalance < hundredths / 100
ImbalanceBelow(imbalance, hundredths) == imbalance.num * 100 < hundredths * imbalance.den

\* The last-resort loop never entered
ImbalanceAbove_never(imbalance, hundredths) == FALSE

\* The last-resort loop never left
ImbalanceAbove_always(imbalance, hundredths) == TRUE

\* imbalance > hundredths / 100
ImbalanceAbove(imbalance, hundredths) == imbalance.num * 100 > hundredths * imbalance.den

\* The f32 that is not a number, which add_item takes as any other component
NaN == 1000

\* f32 multiplication and addition: NaN in, NaN out
f32_mul(a, b) == IF a = NaN \/ b = NaN THEN NaN ELSE a * b

f32_add(a, b) == IF a = NaN \/ b = NaN THEN NaN ELSE a + b

\* f32 comparisons: false when either side is NaN
f32_gt(a, b) == a # NaN /\ b # NaN /\ a > b

f32_lt(a, b) == a # NaN /\ b # NaN /\ a < b

\* f32::min: the other operand when one is NaN
f32_min(a, b) == IF a = NaN THEN b ELSE IF b = NaN THEN a ELSE MinOf2(a, b)

f32_max(a, b) == IF a = NaN THEN b ELSE IF b = NaN THEN a ELSE MaxOf2(a, b)

f32_neg(a) == IF a = NaN THEN NaN ELSE 0 - a

\* dot_product over the zipped components
RECURSIVE DotUpTo(_, _, _)
DotUpTo(p, q, n) ==
    IF n = 0 THEN 0 ELSE f32_add(f32_mul(p[n], q[n]), DotUpTo(p, q, n - 1))

\* D::margin_no_header(p, q)
margin_no_header(p, q) == DotUpTo(p, q, MinOf2(Len(p), Len(q)))

Sides == {"Left", "Right"}

\* side with its last branch taken for Left: no draw from rng
side_never_random(normal_plane, node, random) ==
    LET dot == margin_no_header(node.vector, normal_plane)
    IN IF f32_gt(dot, 0) THEN [side |-> "Right", drawn |-> 0]
       ELSE [side |-> "Left", drawn |-> 0]

\* D::side(normal_plane, node, rng) when the next Side::random(rng) gives
\* random: the side returned and the number of draws made from rng
side_drawing(normal_plane, node, random) ==
    LET dot == margin_no_header(node.vector, normal_plane)
    IN IF f32_gt(dot, 0) THEN [side |-> "Right", drawn |-> 0]
       ELSE IF f32_lt(dot, 0) THEN [side |-> "Left", drawn |-> 0]
       ELSE [side |-> random, drawn |-> 1]

\* D::side(normal_plane, node, rng): the sides it can return
side(normal_plane, node) ==
    { side_drawing(normal_plane, node, random).side : random \in Sides }

\* D::create_split(children, rng): two_means draws two distinct children p and
\* q, the normal is the normalized p - q (here its direction, component signs)
create_split(children) ==
    { [k \in 1..MinOf2(Len(children[pq[1]].vector), Len(children[pq[2]].vector)) |->
            Sign(children[pq[1]].vector[k] - children[pq[2]].vector[k])] :
        pq \in { x \in (1..Len(children)) \X (1..Len(children)) : x[1] # x[2] } }

\* The ids of indices whose assigned side is s, in order
RECURSIVE Pushed(_, _, _, _)
Pushed(indices, sides, s, n) ==
    IF n = 0 THEN <<>>
    ELSE IF sides[n] = s THEN Append(Pushed(indices, sides, s, n - 1), indices[n])
    ELSE Pushed(indices, sides, s, n - 1)

Partition(normal, indices, sides) ==
    [normal |-> normal,
     left |-> Pushed(indices, sides, "Left", Len(indices)),
     right |-> Pushed(indices, sides, "Right", Len(indices))]

\* One pass of the retry loop: a split plane and every child pushed to its side
Attempts(indices, children) ==
    UNION { { Partition(m, indices, sides) :
                sides \in { a \in [1..Len(indices) -> {"Left", "Right"}] :
                              \A i \in 1..Len(indices) : a[i] \in side(m, children[i]) } } :
            m \in create_split(children) }

\* No pass is good enough: the retry loop ends on remaining_attempts == 0 alone
Accepted_never(a) == FALSE

\* The test that ends the retry loop apart from remaining_attempts == 0
Accepted(a) == ImbalanceBelow(split_imbalance(Len(a.left), Len(a.right)), AcceptImbalance)

\* The retry loop over the passes it can make: break on imbalance < 0.95 or
\* remaining_attempts == 0, else one attempt less and again
RECURSIVE RetryLoop(_, _)
RetryLoop(attempts, remaining_attempts) ==
    IF remaining_attempts = 0
    THEN attempts
    ELSE { a \in attempts : Accepted(a) }
         \cup (IF \E a \in attempts : ~Accepted(a)
               THEN RetryLoop(attempts, remaining_attempts - 1)
               ELSE {})

\* The last-resort loop: while imbalance > 0.99, zero the normal and draw a
\* random side for every index.  The empty set when no draw can end the loop.
RandomSides(indices, m) ==
    IF ImbalanceAbove(split_imbalance(Len(m.left), Len(m.right)), RandomImbalance)
    THEN { p \in { Partition([k \in 1..Len(m.normal) |-> 0], indices, sides) :
                     sides \in [1..Len(indices) -> {"Left", "Right"}] } :
             ~ImbalanceAbove(split_imbalance(Len(p.left), Len(p.right)), RandomImbalance) }
    ELSE {m}

\* Both loops: the planes and partitions make_tree can go on with
Splits(indices, children) ==
    UNION { RandomSides(indices, m) :
            m \in RetryLoop(Attempts(indices, children), RemainingAttempts) }

\* make_tree(wtxn, indices, is_root, rng) of a writer with the given dimensions
\* and n_items: every way it can end
RECURSIVE make_tree(_, _, _, _, _)
make_tree(db, indices, is_root, dimensions, n_items) ==
    LET max_descendants == dimensions
    IN IF Len(indices) = 1 /\ ~is_root
       THEN {Ret("ok", db, indices[1], <<>>)}
       ELSE IF /\ Len(indices) <= max_descendants
               /\ (~is_root \/ n_items <= max_descendants \/ Len(indices) = 1)
       THEN {WriteNode(db, Descendants(indices))}
       ELSE IF \E i \in 1..Len(indices) :
                  \/ ~Present(db, indices[i])
                  \/ db[indices[i]].kind \in {"Descendants", "SplitPlaneNormal"}
       THEN \* get(..).unwrap() or node.leaf().unwrap() on a tree node
            {Ret("panic", db, NONE, <<>>)}
       ELSE IF \E i \in 1..Len(indices) : db[indices[i]].kind = "Metadata"
       THEN \* the Metadata bytes read through the node codec
            {Ret("panic", db, NONE, <<>>), Ret("decode_error", db, NONE, <<>>)}
       ELSE IF Len(indices) < 2
       THEN \* two_means cannot draw two children
            {Ret("panic", db, NONE, <<>>)}
       ELSE LET children == [i \in 1..Len(indices) |-> db[indices[i]]]
                splits == Splits(indices, children)
            IN IF splits = {}
               THEN {Ret("loops", db, NONE, <<>>)}
               ELSE UNION { UNION {
                      IF l.status # "ok" THEN {l}
                      ELSE UNION {
                        { IF r.status # "ok"
                          THEN Ret(r.status, r.db, NONE, l.log \o r.log)
                          ELSE LET w == WriteNode(r.db, SplitPlaneNormal(m.normal, l.id, r.id))
                               IN Ret(w.status, w.db, w.id, l.log \o r.log \o w.log) } :
                        r \in make_tree(l.db, m.right, FALSE, dimensions, n_items) } :
                      l \in make_tree(db, m.left, FALSE, dimensions, n_items) } :
                    m \in splits }

\* Only fetch the item's ids: the keys up to last_item_id, in order
ItemIndices(db, last_item_id) ==
    IF last_item_id = NONE THEN <<>>
    ELSE Ascending({ i \in DOMAIN db : i <= last_item_id })

\* StopGrowing with the heuristic comparing against n_items instead of 2 * n_items
StopGrowing_once(db, thread_roots, n_trees, n_items) ==
    \/ n_trees # NONE /\ Len(thread_roots) >= n_trees
    \/ n_trees = NONE /\ DbLen(db) >= n_items

\* The break conditions of the loop of build
StopGrowing(db, thread_roots, n_trees, n_items) ==
    \/ n_trees # NONE /\ Len(thread_roots) >= n_trees
    \/ n_trees = NONE /\ DbLen(db) >= 2 * n_items

\* The loop of build: grow trees until the break condition holds
RECURSIVE GrowTrees(_, _, _, _, _, _, _)
GrowTrees(db, thread_roots, log, dimensions, n_trees, n_items, last_item_id) ==
    IF StopGrowing(db, thread_roots, n_trees, n_items)
    THEN {[status |-> "ok", db |-> db, roots |-> thread_roots, log |-> log]}
    ELSE UNION {
           IF t.status # "ok"
           THEN {[status |-> t.status, db |-> t.db, roots |-> thread_roots, log |-> log \o t.log]}
           ELSE GrowTrees(t.db, Append(thread_roots, t.id), log \o t.log,
                          dimensions, n_trees, n_items, last_item_id) :
           t \in make_tree(db, ItemIndices(db, last_item_id), TRUE, dimensions, n_items) }

\* Copy the roots into the highest key: panics when the key is taken
WriteMetadata(g, dimensions) ==
    IF g.status # "ok" THEN g
    ELSE IF Present(g.db, U32_MAX)
    THEN [g EXCEPT !.status = "panic"]
    ELSE [g EXCEPT !.db = Put(g.db, U32_MAX, Metadata(dimensions, g.roots))]

\* build(self, wtxn, rng, n_trees): every way it can end
build(db, dimensions, n_trees) ==
    LET n_items == DbLen(db)
        last_item_id == last_node_id(db)
    IN { WriteMetadata(g, dimensions) :
         g \in GrowTrees(db, <<>>, <<>>, dimensions, n_trees, n_items, last_item_id) }

\* Writer::build; the handle is consumed
Build(d, n_trees) ==
    /\ ops < MaxOps
    /\ d \in LiveWriters
    /\ \E o \in build(database, d, n_trees) :
         /\ database' = o.db
         /\ last' = Op("build", d, 0, 0, n_trees, o.status, o.log)
    /\ writers' = [writers EXCEPT ![d] = @ - 1]
    /\ prev' = database
    /\ ops' = ops + 1
    /\ UNCHANGED others

Next ==
    \/ \E d \in Dims : Prepare(d)
    \/ \E d \in Dims, item \in Keys, vector \in Vectors : AddItem(d, item, vector)
    \/ \E d \in Dims, item \in Keys : DelItem(d, item)
    \/ \E d \in Dims : Clear(d)
    \/ \E d \in Dims, n_trees \in TreeCounts : Build(d, n_trees)

Spec == Init /\ [][Next]_vars

\* A store an earlier run of the program left behind: prepare(1) twice,
\* add_item(0, <<1>>) and build(Some(1)) through the first handle; the second
\* handle is still alive.  The run that continues from it has MaxOps - 1
\* operations left.
BuiltDb ==
    Put(Put(Put(EmptyDb, 0, Leaf(<<1>>)), 1, Descendants(<<0>>)), U32_MAX, Metadata(1, <<1>>))

BuiltWriters == [d \in Dims |-> IF d = 1 THEN 1 ELSE 0]

BuiltPrev == Put(EmptyDb, 0, Leaf(<<1>>))

BuiltLast ==
    Op("build", 1, 0, 0, 1, "ok",
       <<[id |-> 1, node |-> Descendants(<<0>>), keys |-> {0}, items |-> {0}]>>)

InitBuilt ==
    /\ database = BuiltDb
    /\ writers = BuiltWriters
    /\ prev = BuiltPrev
    /\ last = BuiltLast
    /\ ops = 1
    /\ reader = NoQuery
    /\ node_ids = NoNodeIds
    /\ leafs = NoLeafs
    /\ call = NoCall

\* The same operations, continuing from the built store
SpecBuilt == InitBuilt /\ [][Next]_vars

\* The built store is one the program reaches from the empty one: under Spec
\* this is violated, by the four operations above.
BuiltDbNotReached ==
    ~(database = BuiltDb /\ writers = BuiltWriters /\ prev = BuiltPrev /\ last = BuiltLast)

\* ------------------------------------------------------------------------
\* ConcurrentNodeIds
\* ------------------------------------------------------------------------
MaxThreads == 2

\* One call more than there are u32 values
MaxCalls == U32_MAX + 2

Threads == 1..MaxThreads

\* AtomicU32::fetch_add wraps around on overflow
wrapping_add(a, b) == (a + b) % (U32_MAX + 1)

\* ConcurrentNodeIds::new(v)
NewNodeIds(v) == [value |-> v, start |-> v, returned |-> <<>>]

\* ConcurrentNodeIds::next called by a thread: the fetch_add takes effect in
\* one step, returns the value and leaves the value plus one
NextId(thread) ==
    /\ Len(node_ids.returned) < MaxCalls
    /\ node_ids' = [node_ids EXCEPT
                      !.value = wrapping_add(@, 1),
                      !.returned = Append(@, [thread |-> thread, id |-> node_ids.value])]
    /\ UNCHANGED <<database, writers, prev, last, ops, reader, leafs, call>>

InitNodeIds ==
    /\ database = EmptyDb
    /\ writers = [d \in Dims |-> 0]
    /\ prev = EmptyDb
    /\ last = Op("init", 0, 0, 0, NONE, "ok", NoLog)
    /\ ops = 0
    /\ reader = NoQuery
    /\ \E v \in Keys : node_ids = NewNodeIds(v)
    /\ leafs = NoLeafs
    /\ call = NoCall

NextNodeIds == \E thread \in Threads : NextId(thread)

\* Threads calling next() on one generator, in any interleaving
SpecNodeIds == InitNodeIds /\ [][NextNodeIds]_vars

\* ------------------------------------------------------------------------
\* Reader: nns_by_item and nns_by_vector over a built store
\* ------------------------------------------------------------------------
\* The reserved key holds a Metadata
HoldsMetadata(db) == Present(db, U32_MAX) /\ db[U32_MAX].kind = "Metadata"

\* f32 distances are kept in thousandths
Scale == 1000

\* count_ones of the bytes of 1.0f32 (0x3F800000) xor those of 0.0f32
OneBits == 7

\* usize::MAX on a 64-bit target, to u32::MAX what 2^64 - 1 is to 2^32 - 1
USIZE_MAX == (U32_MAX + 1) * (U32_MAX + 1) - 1

\* The score of a root on the queue: f32::INFINITY, above every margin
Infinity == MaxDim + 1

Metrics == {"binary quantized euclidean", "angular"}

\* The k and the search_k a caller passes
Counts == {0, 1, USIZE_MAX}

\* The ids of items: every key but the reserved one
ItemKeys == Keys \ {U32_MAX}

\* The greatest id the filters of the queries hold
MaxFilterId == 1

\* filter: None
NoFilter == {NONE}

\* The filters of the queries: none, the empty one, one id, all ids up to
\* MaxFilterId
Filters == {NoFilter, {}, 0..MaxFilterId} \cup { {id} : id \in 0..MaxFilterId }

\* The test without the filter
Admits_all(filter, id) == TRUE

\* The test of the filter when a candidate is gathered
Admits(filter, id) == filter = NoFilter \/ id \in filter

\* floor of the square root, by bisection
RECURSIVE SqrtBetween(_, _, _)
SqrtBetween(n, lo, hi) ==
    IF lo >= hi THEN lo
    ELSE LET mid == (lo + hi + 1) \div 2
         IN IF mid <= n \div mid THEN SqrtBetween(n, mid, hi) ELSE SqrtBetween(n, lo, mid - 1)

Sqrt(n) == SqrtBetween(n, 0, n)

\* binary_quantized_euclidean_distance: the one bits of u xor v over the
\* zipped bytes
RECURSIVE BitsUpTo(_, _, _)
BitsUpTo(u, v, n) ==
    IF n = 0 THEN 0
    ELSE (IF u[n] # v[n] THEN OneBits ELSE 0) + BitsUpTo(u, v, n - 1)

binary_quantized_euclidean_distance(u, v) ==
    Scale * BitsUpTo(u, v, MinOf2(Len(u), Len(v)))

\* Angular: 2 - 2 cos of the angle, and 2 when one of the norms is 0
angular_distance(p, q) ==
    LET pn == margin_no_header(p, p)
        qn == margin_no_header(q, q)
        pq == margin_no_header(p, q)
        pnqn == pn * qn
    IN IF pnqn > 0
       THEN MaxOf2(0, 2 * Scale - (2 * Scale * Scale * pq) \div Sqrt(pnqn * Scale * Scale))
       ELSE 2 * Scale

\* D::built_distance on the vectors of two leaves
built_distance(metric, p, q) ==
    IF metric = "angular" THEN angular_distance(p, q)
    ELSE binary_quantized_euclidean_distance(p, q)

\* D::normalized_distance(d) = d.sqrt()
normalized_distance(d) == Sqrt(d * Scale)

\* D::pq_distance(distance, margin, side)
\* pq_distance taking the greater of the two
pq_distance_max(distance, margin, s) ==
    IF s = "Left" THEN f32_max(f32_neg(margin), distance) ELSE f32_max(margin, distance)

pq_distance(distance, margin, s) ==
    IF s = "Left" THEN f32_min(f32_neg(margin), distance) ELSE f32_min(margin, distance)

\* The loop test with the cap off by one
Gathering_one_more(candidates, search_k) == Len(candidates) <= search_k

\* The loop test of the traversal: fewer than search_k candidates gathered
Gathering(candidates, search_k) == Len(candidates) < search_k

\* The ids of a sequence that the filter admits, in order
RECURSIVE Admitted(_, _, _)
Admitted(ids, filter, n) ==
    IF n = 0 THEN <<>>
    ELSE IF Admits(filter, ids[n]) THEN Append(Admitted(ids, filter, n - 1), ids[n])
    ELSE Admitted(ids, filter, n - 1)

\* A sequence without its i-th element
Without(seq, i) == SubSeq(seq, 1, i - 1) \o SubSeq(seq, i + 1, Len(seq))

\* Children that pushes the left child twice
Children_again(node, query, score) ==
    LET margin == margin_no_header(query, node.normal)
    IN << [score |-> pq_distance(score, margin, "Left"), node |-> node.left],
          [score |-> pq_distance(score, margin, "Right"), node |-> node.right],
          [score |-> pq_distance(score, margin, "Left"), node |-> node.left] >>

\* What popping a SplitPlaneNormal pushes: left and right with their scores
Children(node, query, score) ==
    LET margin == margin_no_header(query, node.normal)
    IN << [score |-> pq_distance(score, margin, "Left"), node |-> node.left],
          [score |-> pq_distance(score, margin, "Right"), node |-> node.right] >>

\* The pops the model follows before it gives a traversal up as endless
Fuel(db) == (DbLen(db) + 1) * (DbLen(db) + 1)

\* What a traversal ends with
Gathered(status, candidates, pushed, pops) ==
    [status |-> status, candidates |-> candidates, pushed |-> pushed, pops |-> pops]

\* The best-first traversal: while fewer than search_k candidates are gathered
\* and the queue is not empty, pop an entry of the highest score and resolve
\* it.  Every way it can end, over the entries of equal score.
RECURSIVE Traverse(_, _, _, _, _, _, _, _)
Traverse(db, query, queue, candidates, pushed, pops, search_k, filter) ==
    IF ~Gathering(candidates, search_k) \/ queue = <<>>
    THEN {Gathered("ok", candidates, pushed, pops)}
    ELSE IF pops >= Fuel(db)
    THEN {Gathered("endless", candidates, pushed, pops)}
    ELSE UNION {
           LET e == queue[i]
               rest == Without(queue, i)
           IN IF ~Present(db, e.node) \/ db[e.node].kind = "Metadata"
              THEN {Gathered("decode_error", candidates, pushed, pops + 1)}
              ELSE IF db[e.node].kind = "Leaf"
              THEN Traverse(db, query, rest,
                            candidates \o Admitted(<<e.node>>, filter, 1),
                            pushed, pops + 1, search_k, filter)
              ELSE IF db[e.node].kind = "Descendants"
              THEN Traverse(db, query, rest,
                            candidates \o Admitted(db[e.node].descendants, filter,
                                                   Len(db[e.node].descendants)),
                            pushed, pops + 1, search_k, filter)
              ELSE LET more == Children(db[e.node], query, e.score)
                   IN Traverse(db, query, rest \o more, candidates,
                               pushed \o [j \in 1..Len(more) |-> more[j].node],
                               pops + 1, search_k, filter) :
           i \in { j \in 1..Len(queue) :
                     \A h \in 1..Len(queue) : queue[h].score <= queue[j].score } }

\* The pairs of a set in ascending order of distance, then of id
RECURSIVE Sorted(_)
Sorted(pairs) ==
    IF pairs = {} THEN <<>>
    ELSE LET first == CHOOSE a \in pairs :
                        \A b \in pairs :
                            \/ a.distance < b.distance
                            \/ a.distance = b.distance /\ a.id <= b.id
         IN <<first>> \o Sorted(pairs \ {first})

\* No truncation
Truncate_none(seq, k) == seq

\* truncate(k)
Truncate(seq, k) == SubSeq(seq, 1, MinOf2(k, Len(seq)))

\* What nns answers
Answer(status, result, t) ==
    [status |-> status, result |-> result, pushed |-> t.pushed, pops |-> t.pops,
     gathered |-> t.candidates]

\* nns(query, k, search_k, filter): the roots on the queue with score infinity,
\* the traversal, the candidates without duplicates, their distances to the
\* query, sorted, truncated to k and normalized.  Every answer it can give.
nns(db, metric, query, k, search_k, filter) ==
    LET roots == db[U32_MAX].root_nodes
        queue == [i \in 1..Len(roots) |-> [score |-> Infinity, node |-> roots[i]]]
    IN { IF t.status # "ok" THEN Answer(t.status, <<>>, t)
         ELSE LET ids == { t.candidates[i] : i \in 1..Len(t.candidates) }
              IN IF \E id \in ids : ~(Present(db, id) /\ IsLeaf(db[id]))
                 THEN Answer("decode_error", <<>>, t)
                 ELSE LET pairs == { [id |-> id,
                                      distance |-> built_distance(metric, query, db[id].vector)] :
                                     id \in ids }
                          nearest == Truncate(Sorted(pairs), k)
                      IN Answer("ok",
                                [i \in 1..Len(nearest) |->
                                    [id |-> nearest[i].id,
                                     distance |-> normalized_distance(nearest[i].distance)]],
                                t) :
         t \in Traverse(db, query, queue, <<>>,
                        [i \in 1..Len(roots) |-> roots[i]], 0, search_k, filter) }

\* What the reader remembers of a query
Query(op, metric, item, query, k, search_k, filter, answer) ==
    [op |-> op, metric |-> metric, item |-> item, query |-> query, k |-> k,
     search_k |-> search_k, filter |-> filter, answer |-> answer]

\* Reader::nns_by_item: absent when no leaf is stored under the id
NnsByItem(metric, item, k, search_k, filter) ==
    /\ reader = NoQuery
    /\ HoldsMetadata(database)
    /\ LET query == item_vector(database, item)
       IN IF query = <<NONE>>
          THEN reader' = Query("nns_by_item", metric, item, query, k, search_k, filter,
                               Answer("ItemNotFound", <<>>, Gathered("ok", <<>>, <<>>, 0)))
          ELSE \E answer \in nns(database, metric, query, k, search_k, filter) :
                  reader' = Query("nns_by_item", metric, item, query, k, search_k, filter, answer)
    /\ UNCHANGED <<database, writers, prev, last, ops, node_ids, leafs, call>>

\* Reader::nns_by_vector with a vector of the index's dimensions
NnsByVector(metric, vector, k, search_k, filter) ==
    /\ reader = NoQuery
    /\ HoldsMetadata(database)
    /\ Len(vector) = database[U32_MAX].dimensions
    /\ \E answer \in nns(database, metric, vector, k, search_k, filter) :
          reader' = Query("nns_by_vector", metric, NONE, vector, k, search_k, filter, answer)
    /\ UNCHANGED <<database, writers, prev, last, ops, node_ids, leafs, call>>

\* The most items of a store that is built and then queried
MaxItems == 2

\* The stores of item leaves with vectors of one length under the ids
\* 0 .. n - 1, as the tests add them
ItemStores(d) ==
    UNION { { [k \in 0..n - 1 |-> Leaf(v[k])] : v \in [0..n - 1 -> { x \in Vectors : Len(x) = d }] } :
            n \in 0..MinOf2(MaxItems, U32_MAX) }

\* A store after prepare, add_item for every item and a successful build
InitQuery ==
    /\ \E d \in Dims, n_trees \in TreeCounts :
         \E items \in ItemStores(d) :
           \E o \in build(items, d, n_trees) :
              /\ o.status = "ok"
              /\ database = o.db
              /\ prev = items
              /\ last = Op("build", d, 0, 0, n_trees, "ok", o.log)
    /\ writers = [d \in Dims |-> 0]
    /\ ops = MaxOps
    /\ reader = NoQuery
    /\ node_ids = NoNodeIds
    /\ leafs = NoLeafs
    /\ call = NoCall

NextQuery ==
    \/ \E metric \in Metrics, item \in Keys, k \in Counts, search_k \in Counts, filter \in Filters :
          NnsByItem(metric, item, k, search_k, filter)
    \/ \E metric \in Metrics, vector \in Vectors, k \in Counts, search_k \in Counts, filter \in Filters :
          NnsByVector(metric, vector, k, search_k, filter)

\* Queries on a built store
SpecQuery == InitQuery /\ [][NextQuery]_vars

\* ------------------------------------------------------------------------
\* ImmutableLeafs
\* ------------------------------------------------------------------------
\* Ok(None)
Absent == [kind |-> "None"]

\* The stores of item leaves that add_item leaves behind, under any ids
LeafStores ==
    UNION { [ids -> { Leaf(vector) : vector \in Vectors }] : ids \in SUBSET ItemKeys }

\* RoaringBitmap::rank: the number of ids of the bitmap up to item_id
rank(leaf_ids, item_id) == Cardinality({ id \in leaf_ids : id <= item_id })

\* ImmutableLeafs::new: the ids, the common length and the pointers of the
\* leaves in key order; the assert_eq! panics when two lengths differ
ImmutableLeafsNew(db) ==
    LET ids == Ascending(LeafIds(db))
    IN IF \E i \in 1..Len(ids) : Len(db[ids[i]].vector) # Len(db[ids[1]].vector)
       THEN [op |-> "new", status |-> "panic", leaf_ids |-> {}, constant_length |-> NONE,
             offsets |-> <<>>, item_id |-> NONE, got |-> Absent]
       ELSE [op |-> "new", status |-> "ok",
             leaf_ids |-> LeafIds(db),
             constant_length |-> IF ids = <<>> THEN NONE ELSE Len(db[ids[1]].vector),
             offsets |-> [i \in 1..Len(ids) |-> db[ids[i]]],
             item_id |-> NONE, got |-> Absent]

\* ImmutableLeafs::get: the pointer at rank(item_id) - 1, read as a leaf
ImmutableLeafsGet(l, item_id) ==
    IF l.constant_length = NONE THEN Absent
    ELSE LET offset == rank(l.leaf_ids, item_id) - 1
         IN IF offset < 0 \/ offset >= Len(l.offsets) THEN Absent
            ELSE l.offsets[offset + 1]

NewLeafs ==
    /\ leafs = NoLeafs
    /\ leafs' = ImmutableLeafsNew(database)
    /\ UNCHANGED <<database, writers, prev, last, ops, reader, node_ids, call>>

GetLeaf(item_id) ==
    /\ leafs # NoLeafs
    /\ leafs.status = "ok"
    /\ leafs' = [leafs EXCEPT !.op = "get", !.item_id = item_id,
                              !.got = ImmutableLeafsGet(leafs, item_id)]
    /\ UNCHANGED <<database, writers, prev, last, ops, reader, node_ids, call>>

InitLeafs ==
    /\ database \in LeafStores
    /\ writers = [d \in Dims |-> 0]
    /\ prev = database
    /\ last = Op("init", 0, 0, 0, NONE, "ok", NoLog)
    /\ ops = 0
    /\ reader = NoQuery
    /\ node_ids = NoNodeIds
    /\ leafs = NoLeafs
    /\ call = NoCall

NextLeafs ==
    \/ NewLeafs
    \/ \E item_id \in Keys : GetLeaf(item_id)

\* An ImmutableLeafs over a store of items, and the calls of get
SpecLeafs == InitLeafs /\ [][NextLeafs]_vars

\* ------------------------------------------------------------------------
\* make_tree step by step: the frames of the recursion, one pass of each loop
\* per step
\* ------------------------------------------------------------------------
\* The dimensions prepare accepts: usize, zero included
TreeDims == 0..MaxDim

\* The most item leaves of a store a tree is grown on
MaxLeafs == MinOf2(MaxItems + 1, U32_MAX)

\* The vectors add_item accepts from a writer of these dimensions
VectorsOf(dimensions) == { [i \in 1..dimensions |-> c] : c \in Components }

\* Stores of item leaves alone, as add_item leaves them: consecutive ids, the
\* lowest ones or the highest ones, vectors of the writer's dimensions
LeafWindows(dimensions) ==
    UNION { UNION { [first..first + n - 1 -> { Leaf(vector) : vector \in VectorsOf(dimensions) }] :
                    first \in {0, U32_MAX - n + 1} } :
            n \in 1..MaxLeafs }

NoSplit == [normal |-> <<>>, left |-> <<>>, right |-> <<>>]

\* One call of make_tree(wtxn, indices, is_root, rng) on entry: its arguments,
\* its place, remaining_attempts, m with children_left and children_right, and
\* the ids its two calls returned.  attempts holds what one pass of the retry
\* loop can give on the children read, runs counts the runs of create_split
\* and kept is the partition the retry loop ended with, all three for as long
\* as the call is in its loops.
Frame(indices, is_root) ==
    [indices |-> indices, is_root |-> is_root, pc |-> "enter",
     remaining_attempts |-> RemainingAttempts, attempts |-> {}, runs |-> 0,
     kept |-> NoSplit, m |-> NoSplit, left |-> NONE, right |-> NONE]

Top(stack) == stack[Len(stack)]

Pop(stack) == SubSeq(stack, 1, Len(stack) - 1)

ReplaceTop(stack, frame) == Append(Pop(stack), frame)

\* return Ok(id): the caller goes on behind its call, m.left = .. or m.right = ..
Return(c, id) ==
    IF Len(c.stack) = 1
    THEN [c EXCEPT !.stack = <<>>, !.status = "ok", !.id = id]
    ELSE LET caller == c.stack[Len(c.stack) - 1]
             resumed == IF caller.pc = "left"
                        THEN [caller EXCEPT !.left = id, !.pc = "go_right"]
                        ELSE [caller EXCEPT !.right = id, !.pc = "write"]
         IN [c EXCEPT !.stack = ReplaceTop(Pop(c.stack), resumed)]

\* A failed unwrap ends every call
Panic(c) == [c EXCEPT !.stack = <<>>, !.status = "panic"]

Running == call.fn = "make_tree" /\ call.status = "running"

\* The leaves read for the indices of a frame
ChildrenOf(db, indices) == [i \in 1..Len(indices) |-> db[indices[i]]]

\* The test of line 129 never true: a singleton side handled as any other call
IsSingletonSide_never(indices, is_root) == FALSE

\* indices.len() == 1 && !is_root
IsSingletonSide(indices, is_root) == Len(indices) = 1 /\ ~is_root

\* Lines 127-151: the singleton, the Descendants, the children read
Enter ==
    /\ Running
    /\ Top(call.stack).pc = "enter"
    /\ LET f == Top(call.stack)
           max_descendants == call.dimensions
       IN IF IsSingletonSide(f.indices, f.is_root)
          THEN /\ call' = Return(call, f.indices[1])
               /\ UNCHANGED database
          ELSE IF /\ Len(f.indices) <= max_descendants
                  /\ (~f.is_root \/ call.n_items <= max_descendants \/ Len(f.indices) = 1)
          THEN LET w == WriteNode(database, Descendants(f.indices))
               IN IF w.status = "ok"
                  THEN database' = w.db /\ call' = Return(call, w.id)
                  ELSE call' = Panic(call) /\ UNCHANGED database
          ELSE IF \E i \in 1..Len(f.indices) :
                     ~Present(database, f.indices[i]) \/ ~IsLeaf(database[f.indices[i]])
          THEN call' = Panic(call) /\ UNCHANGED database
          ELSE /\ call' = [call EXCEPT !.stack = ReplaceTop(call.stack,
                          [f EXCEPT !.pc = "retry",
                                    !.attempts = Attempts(f.indices, ChildrenOf(database, f.indices))])]
               /\ UNCHANGED database
    /\ UNCHANGED <<writers, prev, last, ops, reader, node_ids, leafs>>

\* Lines 157-176: one pass of the retry loop
Attempt ==
    /\ Running
    /\ Top(call.stack).pc = "retry"
    /\ LET f == Top(call.stack)
       IN IF Len(f.indices) < 2
          THEN \* two_means cannot draw two children
               call' = Panic(call)
          ELSE \E a \in f.attempts :
                 call' = [call EXCEPT !.stack = ReplaceTop(call.stack,
                            IF Accepted(a) \/ f.remaining_attempts = 0
                            THEN [f EXCEPT !.runs = @ + 1, !.m = a, !.kept = a, !.pc = "random",
                                           !.attempts = {}]
                            ELSE [f EXCEPT !.runs = @ + 1, !.m = a,
                                           !.remaining_attempts = @ - 1])]
    /\ UNCHANGED <<database, writers, prev, last, ops, reader, node_ids, leafs>>

\* Lines 180-192: one pass of the last-resort loop with the sides drawn
RandomSide(sides) ==
    /\ Running
    /\ Top(call.stack).pc = "random"
    /\ LET f == Top(call.stack)
       IN /\ ImbalanceAbove(split_imbalance(Len(f.m.left), Len(f.m.right)), RandomImbalance)
          /\ sides \in [1..Len(f.indices) -> {"Left", "Right"}]
          /\ call' = [call EXCEPT !.stack = ReplaceTop(call.stack,
                        [f EXCEPT !.m = Partition([k \in 1..Len(f.m.normal) |-> 0],
                                                  f.indices, sides)])]
    /\ UNCHANGED <<database, writers, prev, last, ops, reader, node_ids, leafs>>

\* Line 195: the loop is left, make_tree on children_left
RecurseLeft ==
    /\ Running
    /\ Top(call.stack).pc = "random"
    /\ LET f == Top(call.stack)
       IN /\ ~ImbalanceAbove(split_imbalance(Len(f.m.left), Len(f.m.right)), RandomImbalance)
          /\ call' = [call EXCEPT !.stack =
                        Append(ReplaceTop(call.stack, [f EXCEPT !.pc = "left", !.remaining_attempts = 0,
                                                            !.runs = 0, !.kept = NoSplit]),
                               Frame(f.m.left, FALSE))]
    /\ UNCHANGED <<database, writers, prev, last, ops, reader, node_ids, leafs>>

\* Line 196: make_tree on children_right
RecurseRight ==
    /\ Running
    /\ Top(call.stack).pc = "go_right"
    /\ LET f == Top(call.stack)
       IN call' = [call EXCEPT !.stack =
                     Append(ReplaceTop(call.stack, [f EXCEPT !.pc = "right"]),
                            Frame(f.m.right, FALSE))]
    /\ UNCHANGED <<database, writers, prev, last, ops, reader, node_ids, leafs>>

\* Lines 198-204: the SplitPlaneNormal under the next id
WriteSplit ==
    /\ Running
    /\ Top(call.stack).pc = "write"
    /\ LET f == Top(call.stack)
           w == WriteNode(database, SplitPlaneNormal(f.m.normal, f.left, f.right))
       IN IF w.status = "ok"
          THEN database' = w.db /\ call' = Return(call, w.id)
          ELSE call' = Panic(call) /\ UNCHANGED database
    /\ UNCHANGED <<writers, prev, last, ops, reader, node_ids, leafs>>

\* build up to its first call of make_tree (lines 73-94) on a store of items
InitTree ==
    /\ \E dimensions \in TreeDims :
         /\ database \in LeafWindows(dimensions)
         /\ call = [fn |-> "make_tree", dimensions |-> dimensions,
                    n_items |-> DbLen(database),
                    stack |-> <<Frame(ItemIndices(database, last_node_id(database)), TRUE)>>,
                    status |-> "running", id |-> NONE]
    /\ writers = [d \in Dims |-> 0]
    /\ prev = database
    /\ last = Op("init", 0, 0, 0, NONE, "ok", NoLog)
    /\ ops = 0
    /\ reader = NoQuery
    /\ node_ids = NoNodeIds
    /\ leafs = NoLeafs

\* What Side::random can give for the indices of one call, in order
SideDraws == UNION { [1..n -> {"Left", "Right"}] : n \in 1..MaxLeafs }

NextTree ==
    \/ Enter
    \/ Attempt
    \/ \E sides \in SideDraws : RandomSide(sides)
    \/ RecurseLeft
    \/ RecurseRight
    \/ WriteSplit

\* The root call of make_tree on a store of items, step by step
SpecTree == InitTree /\ [][NextTree]_vars

\* The steps of make_tree that draw no side: the frame on top has one of them
\* to take
Proceed == Enter \/ Attempt \/ RecurseLeft \/ RecurseRight \/ WriteSplit

\* A pass of the last-resort loop whose draws end it
BalancedSide ==
    \E sides \in SideDraws :
        /\ RandomSide(sides)
        /\ Running
        /\ LET p == Partition(<<>>, Top(call.stack).indices, sides)
           IN ~ImbalanceAbove(split_imbalance(Len(p.left), Len(p.right)), RandomImbalance)

\* The call keeps running, and the draws of Side::random that end the
\* last-resort loop are not left out for ever while it runs
FairTree == WF_vars(Proceed) /\ WF_vars(BalancedSide)

\* The stores of dimensions >= 1 with the ids from 0 on and the vectors in
\* ascending order: one store for every multiset of vectors
InitTreeFair ==
    /\ InitTree
    /\ call.dimensions >= 1
    /\ 0 \in DOMAIN database
    /\ \A i \in DOMAIN database, j \in DOMAIN database :
         i <= j => database[i].vector[1] <= database[j].vector[1]

\* The root call of make_tree, step by step, that keeps running
SpecTreeFair == InitTreeFair /\ [][NextTree]_vars /\ FairTree

\* ------------------------------------------------------------------------
\* Distance::side on its own
\* ------------------------------------------------------------------------
\* The f32 components of a leaf and of a normal: negative, zero, positive, NaN
Floats == {-1, 0, 1, NaN}

FloatVectors(dimensions) == [1..dimensions -> Floats]

\* side(normal_plane, node, rng) with random the next draw of rng
Side(random) ==
    /\ call.fn = "side"
    /\ call.returned = "none"
    /\ LET r == side_drawing(call.normal_plane, call.node, random)
       IN call' = [call EXCEPT !.dot = margin_no_header(call.node.vector, call.normal_plane),
                               !.random = random,
                               !.returned = r.side,
                               !.drawn = r.drawn]
    /\ UNCHANGED <<database, writers, prev, last, ops, reader, node_ids, leafs>>

\* A leaf and a normal of the same dimensions
InitSide ==
    /\ \E dimensions \in TreeDims :
         \E vector \in FloatVectors(dimensions), normal_plane \in FloatVectors(dimensions) :
            call = [fn |-> "side", normal_plane |-> normal_plane, node |-> Leaf(vector),
                    dot |-> NONE, random |-> "none", returned |-> "none", drawn |-> 0]
    /\ database = EmptyDb
    /\ writers = [d \in Dims |-> 0]
    /\ prev = EmptyDb
    /\ last = Op("init", 0, 0, 0, NONE, "ok", NoLog)
    /\ ops = 0
    /\ reader = NoQuery
    /\ node_ids = NoNodeIds
    /\ leafs = NoLeafs

NextSide == \E random \in Sides : Side(random)

\* One call of side on every leaf and normal
SpecSide == InitSide /\ [][NextSide]_vars

\* ------------------------------------------------------------------------
\* The scores along one path of the traversal
\* ------------------------------------------------------------------------
\* The SplitPlaneNormal nodes followed on one path
MaxDepth == MaxOps

\* A query vector, NaN components included, and a root pushed with score
\* infinity
InitPq ==
    /\ \E dimensions \in Dims :
         \E query \in FloatVectors(dimensions) :
            call = [fn |-> "pq_distance", query |-> query, score |-> Infinity,
                    distance |-> Infinity, margin |-> 0, side |-> "none", depth |-> 0]
    /\ database = EmptyDb
    /\ writers = [d \in Dims |-> 0]
    /\ prev = EmptyDb
    /\ last = Op("init", 0, 0, 0, NONE, "ok", NoLog)
    /\ ops = 0
    /\ reader = NoQuery
    /\ node_ids = NoNodeIds
    /\ leafs = NoLeafs

\* The entry of score call.score is popped as a SplitPlaneNormal of this
\* normal, and its child on side s is followed with the score it is pushed with
Push(normal, s) ==
    /\ call.fn = "pq_distance"
    /\ call.depth < MaxDepth
    /\ Len(normal) = Len(call.query)
    /\ LET more == Children(SplitPlaneNormal(normal, 0, 1), call.query, call.score)
       IN call' = [call EXCEPT !.score = more[IF s = "Left" THEN 1 ELSE 2].score,
                               !.distance = call.score,
                               !.margin = margin_no_header(call.query, normal),
                               !.side = s,
                               !.depth = @ + 1]
    /\ UNCHANGED <<database, writers, prev, last, ops, reader, node_ids, leafs>>

\* The normals of the query's dimensions, NaN components included
NextPq ==
    \E dimensions \in Dims :
        \E normal \in FloatVectors(dimensions), s \in Sides : Push(normal, s)

\* One path of a traversal from a root down
SpecPq == InitPq /\ [][NextPq]_vars

\* ------------------------------------------------------------------------
\* The claims
\* ------------------------------------------------------------------------
TreeKinds == {"SplitPlaneNormal", "Descendants"}

IsBuild == last.op = "build"

BuildOk == IsBuild /\ last.res = "ok"

\* An item leaf: a Leaf under an item id, that is, below the reserved key
IsItemLeaf(db, k) == Present(db, k) /\ k # U32_MAX /\ IsLeaf(db[k])

\* C1: after prepare returns the store holds no SplitPlaneNormal, no
\* Descendants and no Metadata, and every item leaf that was there before
\* prepare is still there, unchanged.
C1_PrepareLeavesOnlyItems ==
    last.op = "prepare" =>
        /\ \A k \in DOMAIN database : database[k].kind \notin TreeKinds \cup {"Metadata"}
        /\ \A k \in DOMAIN prev :
              IsItemLeaf(prev, k) => Present(database, k) /\ database[k] = prev[k]

\* Every root id of the Metadata under the reserved key is a key of the store
\* holding a SplitPlaneNormal, a Descendants or a Leaf
RootsResolve(db) ==
    \A i \in 1..Len(db[U32_MAX].root_nodes) :
        LET root == db[U32_MAX].root_nodes[i]
        IN Present(db, root) /\ db[root].kind \in TreeKinds \cup {"Leaf"}

\* C2 as stated: after every successful build, whatever the items and n_trees,
\* the reserved key holds a Metadata whose roots are non-empty and all resolve.
C2_RootsNonEmptyAlways ==
    BuildOk =>
        /\ HoldsMetadata(database)
        /\ database[U32_MAX].root_nodes # <<>>
        /\ RootsResolve(database)

\* build grows at least one tree: n_trees >= 1, or n_trees absent and the store
\* not empty when build starts
GrowsATree == last.n_trees >= 1 \/ (last.n_trees = NONE /\ DOMAIN prev # {})

\* C2 amended: after every successful build the reserved key holds a Metadata
\* whose roots all resolve, and the roots are non-empty exactly when build grows
\* at least one tree; with n_trees = 0, or n_trees absent on an empty store,
\* the roots are empty.
C2_RootsNonEmptyWhenGrown ==
    BuildOk =>
        /\ HoldsMetadata(database)
        /\ RootsResolve(database)
        /\ (database[U32_MAX].root_nodes # <<>>) <=> GrowsATree

\* C2 witness: a successful build with n_trees absent on a non-empty store that
\* grew two trees
C2_Witness ==
    /\ BuildOk
    /\ last.n_trees = NONE
    /\ DOMAIN prev # {}
    /\ Len(database[U32_MAX].root_nodes) >= 2

\* The ids a node refers to: left and right of a SplitPlaneNormal, the ids
\* listed in a Descendants
RefersTo(db, id) ==
    IF ~Present(db, id) THEN {}
    ELSE IF db[id].kind = "SplitPlaneNormal" THEN {db[id].left, db[id].right}
    ELSE IF db[id].kind = "Descendants"
         THEN { db[id].descendants[i] : i \in 1..Len(db[id].descendants) }
    ELSE {}

RECURSIVE ReachableFrom(_, _)
ReachableFrom(db, seen) ==
    LET more == seen \cup UNION { RefersTo(db, id) : id \in seen }
    IN IF more = seen THEN seen ELSE ReachableFrom(db, more)

\* The ids reachable from the roots of the Metadata
Reachable(db) ==
    ReachableFrom(db, { db[U32_MAX].root_nodes[i] : i \in 1..Len(db[U32_MAX].root_nodes) })

\* C3: after a successful build every id reachable from a root through left,
\* right and the Descendants lists is a key of the store.
C3_NoDanglingId ==
    BuildOk => Reachable(database) \subseteq DOMAIN database

\* C4: every id build allocates is greater than every item id in the store at
\* that moment and is no key of the store, so that after build (however it
\* ends) every node it wrote is still there as written and every entry that
\* was there before is unchanged.
C4_FreshNodeIds ==
    IsBuild =>
        /\ \A i \in 1..Len(last.log) :
              LET a == last.log[i]
              IN /\ a.id \notin a.keys
                 /\ \A k \in a.items : a.id > k
                 /\ Present(database, a.id) /\ database[a.id] = a.node
        /\ \A k \in DOMAIN prev : Present(database, k) /\ database[k] = prev[k]

\* C4 witness: a successful build over stored items that allocated at least two
\* ids, one of them for a SplitPlaneNormal
C4_Witness ==
    /\ BuildOk
    /\ LeafIds(prev) # {}
    /\ Len(last.log) >= 2
    /\ \E i \in 1..Len(last.log) : last.log[i].node.kind = "SplitPlaneNormal"

\* C5: the reserved key only ever holds Metadata.
C5_ReservedKeyOnlyMetadata ==
    Present(database, U32_MAX) => database[U32_MAX].kind = "Metadata"

\* C6: add_item with a vector whose length differs from the writer's dimensions
\* returns the DimensionMismatch error and leaves the store unchanged.
C6_DimensionMismatchReturned ==
    (last.op = "add_item" /\ last.len # last.d) =>
        last.res = "DimensionMismatch" /\ database = prev

\* C7: build on a store whose reserved key already holds Metadata returns the
\* MetadataAlreadyPresent error and does not replace the Metadata.
C7_MetadataAlreadyPresentReturned ==
    (IsBuild /\ HoldsMetadata(prev)) =>
        /\ last.res = "MetadataAlreadyPresent"
        /\ HoldsMetadata(database) /\ database[U32_MAX] = prev[U32_MAX]

\* C8: del_item(id) returns true exactly when a leaf was stored under id,
\* afterwards item_vector(id) is absent, and nothing but that leaf is removed:
\* every other entry, tree nodes and Metadata included, is unchanged.
C8_DelItemRemovesOnlyTheLeaf ==
    last.op = "del_item" =>
        /\ (last.res = "true") <=> (Present(prev, last.item) /\ IsLeaf(prev[last.item]))
        /\ item_vector(database, last.item) = <<NONE>>
        /\ \A k \in DOMAIN prev :
              (k # last.item \/ ~IsLeaf(prev[k])) =>
                  Present(database, k) /\ database[k] = prev[k]

\* C9: all stored leaves have vectors of the same length, and after a
\* successful build that length is Metadata.dimensions.
C9_OneVectorLength ==
    /\ \A j \in LeafIds(database), k \in LeafIds(database) :
          Len(database[j].vector) = Len(database[k].vector)
    /\ BuildOk =>
          \A k \in LeafIds(database) :
              Len(database[k].vector) = database[U32_MAX].dimensions

\* C11: prepare followed by build on an already-built store, with the same
\* items, dimensions, n_trees and draws as the run that built it, ends with the
\* same internal nodes under the same ids and the same Metadata: the store a
\* successful build left is one of the stores that prepare-then-build makes of
\* it.
C11_PrepareBuildIdempotent ==
    BuildOk =>
        \E o \in build(clear_tree_nodes(database), last.d, last.n_trees) :
            o.status = "ok" /\ o.db = database

\* The ids of the item leaves of a store
ItemIds(db) == { k \in DOMAIN db : IsItemLeaf(db, k) }

\* C12: when 1 <= n_items <= dimensions, a successful build with n_trees = n
\* writes exactly n Descendants and no SplitPlaneNormal, each listing all item
\* ids in ascending order, at the ids last_item_id + 1 .. last_item_id + n, and
\* a Metadata whose roots are that id sequence and whose dimensions are the
\* writer's.
C12_SmallCorpusOnlyDescendants ==
    (BuildOk /\ last.n_trees # NONE /\ 1 <= DbLen(prev) /\ DbLen(prev) <= last.d) =>
        LET n == last.n_trees
            last_item_id == last_node_id(prev)
        IN /\ DOMAIN database \ DOMAIN prev
                = (last_item_id + 1 .. last_item_id + n) \cup {U32_MAX}
           /\ \A id \in last_item_id + 1 .. last_item_id + n :
                 database[id] = Descendants(Ascending(ItemIds(prev)))
           /\ database[U32_MAX] = Metadata(last.d, [i \in 1..n |-> last_item_id + i])

\* The allocation of build that wrote the node under id
Allocation(id) == CHOOSE a \in { last.log[i] : i \in 1..Len(last.log) } : a.id = id

\* The number of persisted entries at the i-th tree boundary of the last build:
\* when build starts (i = 0), and right after the root of the i-th tree is
\* written
AtBoundary(i) ==
    IF i = 0 THEN DbLen(prev)
    ELSE Cardinality(Allocation(database[U32_MAX].root_nodes[i]).keys) + 1

\* C13: with n_trees absent, build grows another tree at every tree boundary
\* at which fewer than 2 * n_items entries are persisted (n_items counted when
\* build starts), stops at the first boundary with at least 2 * n_items, every
\* tree adds at least one node, and build never loops for ever.
C13_GrowsUntilTwiceTheItems ==
    (IsBuild /\ last.n_trees = NONE) =>
        /\ last.res # "loops"
        /\ BuildOk =>
              LET n_items == DbLen(prev)
                  trees == Len(database[U32_MAX].root_nodes)
              IN /\ \A i \in 0..trees - 1 : AtBoundary(i) < 2 * n_items
                 /\ AtBoundary(trees) >= 2 * n_items
                 /\ \A i \in 1..trees : AtBoundary(i) > AtBoundary(i - 1)

\* C13 witness: a successful build with n_trees absent that kept growing after
\* its first tree, one of the trees through a SplitPlaneNormal
C13_Witness ==
    /\ BuildOk
    /\ last.n_trees = NONE
    /\ Len(database[U32_MAX].root_nodes) >= 2
    /\ AtBoundary(1) < 2 * DbLen(prev)
    /\ \E i \in 1..Len(last.log) : last.log[i].node.kind = "SplitPlaneNormal"

\* C14: every Descendants written by build, from whatever store build was
\* started on, lists only ids of item leaves and at most dimensions ids.
C14_DescendantsListItemLeaves ==
    IsBuild =>
        \A i \in 1..Len(last.log) :
            LET node == last.log[i].node
            IN node.kind = "Descendants" =>
                 /\ Len(node.descendants) <= last.d
                 /\ \A j \in 1..Len(node.descendants) :
                       IsItemLeaf(prev, node.descendants[j])

\* The reader has answered a query
Answered == reader.op \in {"nns_by_item", "nns_by_vector"}

\* The query was answered with a list of neighbours
AnsweredOk == Answered /\ reader.answer.status = "ok"

\* The ids of the returned pairs
ReturnedIds == { reader.answer.result[i].id : i \in 1..Len(reader.answer.result) }

\* C15: nns, by vector or by item, returns at most k pairs, and the returned
\* distances are non-decreasing from first to last.
C15_AtMostKNearestFirst ==
    AnsweredOk =>
        LET result == reader.answer.result
        IN /\ Len(result) <= reader.k
           /\ \A i \in 1..Len(result), j \in 1..Len(result) :
                 i < j => result[i].distance <= result[j].distance

\* C15 witness: an answer of two pairs at different distances
C15_Witness ==
    /\ AnsweredOk
    /\ Len(reader.answer.result) >= 2
    /\ reader.answer.result[1].distance < reader.answer.result[2].distance

\* C16: with a filter every returned id is in the filter, and a filter that
\* holds none of the items yields an empty result.
C16_FilterRespected ==
    (AnsweredOk /\ reader.filter # NoFilter) =>
        /\ ReturnedIds \subseteq reader.filter
        /\ (reader.filter \cap ItemIds(database) = {}) => reader.answer.result = <<>>

\* C16 witness: a filter that holds one of two stored items, and an answer
\* that returns it
C16_Witness ==
    /\ AnsweredOk
    /\ reader.filter # NoFilter
    /\ reader.answer.result # <<>>
    /\ ItemIds(database) \ reader.filter # {}
    /\ reader.search_k = USIZE_MAX

\* C17: for every item i present at build time, on a forest of at least one
\* tree, nns_by_item(i) with unbounded k and search_k and no filter returns a
\* list that contains i with distance 0.
C17_ItemIsItsOwnNearest ==
    (/\ reader.op = "nns_by_item"
     /\ IsItemLeaf(prev, reader.item)
     /\ database[U32_MAX].root_nodes # <<>>
     /\ reader.k = USIZE_MAX /\ reader.search_k = USIZE_MAX /\ reader.filter = NoFilter) =>
        /\ reader.answer.status = "ok"
        /\ \E i \in 1..Len(reader.answer.result) :
              reader.answer.result[i] = [id |-> reader.item, distance |-> 0]

\* C18: a queue entry is popped only while fewer than search_k candidates are
\* gathered, so with search_k = 0 nothing is popped and the result is empty.
C18_SearchKZeroFindsNothing ==
    Answered =>
        /\ reader.answer.pops > 0 => reader.search_k > 0
        /\ reader.search_k = 0 =>
              reader.answer.status \in {"ok", "ItemNotFound"} /\ reader.answer.result = <<>>

\* C18 witness: search_k = 0 with k unbounded and no filter, by an item of a
\* forest with a tree
C18_Witness ==
    /\ AnsweredOk
    /\ reader.op = "nns_by_item"
    /\ database[U32_MAX].root_nodes # <<>>
    /\ reader.search_k = 0 /\ reader.k = USIZE_MAX /\ reader.filter = NoFilter
    /\ reader.answer.result = <<>>

\* How many times id occurs among the first n of ids
RECURSIVE Occurrences(_, _, _)
Occurrences(ids, id, n) ==
    IF n = 0 THEN 0
    ELSE (IF ids[n] = id THEN 1 ELSE 0) + Occurrences(ids, id, n - 1)

\* C19: nns ends for every built forest and every search_k: a node is pushed
\* on the queue at most once per tree (an internal node once, a leaf once for
\* each tree), no more entries are popped than were pushed, and with a
\* search_k above the number of items the queue is exhausted.
C19_TraversalEnds ==
    Answered =>
        LET pushed == reader.answer.pushed
            trees == Len(database[U32_MAX].root_nodes)
        IN /\ reader.answer.status # "endless"
           /\ \A id \in DOMAIN database :
                 Occurrences(pushed, id, Len(pushed))
                     <= (IF IsLeaf(database[id]) THEN trees ELSE 1)
           /\ reader.answer.pops <= Len(pushed)
           /\ (AnsweredOk /\ reader.search_k = USIZE_MAX /\ reader.filter = NoFilter) =>
                 /\ reader.answer.pops = Len(pushed)
                 /\ { reader.answer.gathered[i] : i \in 1..Len(reader.answer.gathered) }
                        = (IF trees = 0 THEN {} ELSE ItemIds(database))

\* C19 witness: a search_k above the number of items on a forest of two trees
\* with SplitPlaneNormal roots: the queue is exhausted after every node was
\* popped
C19_Witness ==
    /\ AnsweredOk
    /\ reader.search_k = USIZE_MAX
    /\ Len(database[U32_MAX].root_nodes) = 2
    /\ reader.answer.pops = Len(reader.answer.pushed)
    /\ \E id \in DOMAIN database :
          database[id].kind = "SplitPlaneNormal"
          /\ Occurrences(reader.answer.pushed, id, Len(reader.answer.pushed)) = 1

\* C20: ConcurrentNodeIds never returns the same id twice: the ids returned by
\* the calls of next() on one generator created with start value v are
\* pairwise distinct and are v, v + 1, v + 2, ... in the order the calls take
\* effect, for any number of calls.
C20_NeverTheSameIdTwice ==
    LET returned == node_ids.returned
    IN /\ \A i \in 1..Len(returned), j \in 1..Len(returned) :
             i # j => returned[i].id # returned[j].id
       /\ \A i \in 1..Len(returned) : returned[i].id = node_ids.start + (i - 1)

\* C21: ImmutableLeafs.get(id) returns the leaf stored under id when id is one
\* of the item ids recorded at construction, and absent for every other id,
\* also one between two recorded ids or above the greatest.
C21_GetReturnsTheRecordedLeaf ==
    leafs.op = "get" =>
        IF leafs.item_id \in leafs.leaf_ids
        THEN leafs.got = database[leafs.item_id]
        ELSE leafs.got = Absent

\* The ids at the terminal positions under a node id, in order: the id itself
\* when it is no SplitPlaneNormal and no Descendants, the entries of a
\* Descendants, the terminal positions of left and of right
RECURSIVE Terminals(_, _)
Terminals(db, id) ==
    IF ~Present(db, id) THEN <<id>>
    ELSE IF db[id].kind = "Descendants" THEN db[id].descendants
    ELSE IF db[id].kind = "SplitPlaneNormal"
         THEN Terminals(db, db[id].left) \o Terminals(db, db[id].right)
    ELSE <<id>>

\* C22: after build, within each tree every item id that was in the store when
\* build started is at exactly one terminal position under the root, and no
\* other id is at a terminal position.
C22_OneTerminalPositionPerTree ==
    BuildOk =>
        \A i \in 1..Len(database[U32_MAX].root_nodes) :
            LET terminals == Terminals(database, database[U32_MAX].root_nodes[i])
            IN /\ \A id \in ItemIds(prev) : Occurrences(terminals, id, Len(terminals)) = 1
               /\ \A j \in 1..Len(terminals) : terminals[j] \in ItemIds(prev)

\* The nodes make_tree has written so far
Written == DOMAIN database \ DOMAIN prev

\* A side of one index is the item leaf itself: in the frames that have their
\* left or right id, and in the SplitPlaneNormal nodes written
SingletonSidesAreLeaves ==
    /\ \A i \in 1..Len(call.stack) :
         LET f == call.stack[i]
         IN /\ (f.pc \in {"go_right", "right", "write"} /\ Len(f.m.left) = 1)
                  => f.left = f.m.left[1]
            /\ (f.pc = "write" /\ Len(f.m.right) = 1) => f.right = f.m.right[1]
    /\ \A id \in Written :
         database[id].kind = "SplitPlaneNormal" =>
             \A s \in {database[id].left, database[id].right} :
                 Len(Terminals(database, s)) = 1 => s \in DOMAIN prev

\* No node is written for a side of one index: a Descendants of one id is the
\* root of a store of one item
SingletonSidesWriteNothing ==
    \A id \in Written :
        (database[id].kind = "Descendants" /\ Len(database[id].descendants) = 1)
            => DbLen(prev) = 1

\* The root call on one index has written the Descendants holding it
SingleRootDescendants ==
    /\ call.status = "ok"
    /\ call.id \notin DOMAIN prev
    /\ database = Put(prev, call.id, Descendants(ItemIndices(prev, last_node_id(prev))))

Returned == call.fn = "make_tree" /\ call.status # "running"

\* C23 as stated: a non-root call on exactly one index returns that item id and
\* writes nothing, so the parent SplitPlaneNormal refers to the item leaf
\* itself; a root call on exactly one index writes a Descendants holding it.
C23_SingletonCalls ==
    call.fn = "make_tree" =>
        /\ SingletonSidesAreLeaves
        /\ SingletonSidesWriteNothing
        /\ (Returned /\ DbLen(prev) = 1) => SingleRootDescendants

\* C23: a non-root call on exactly one index returns that item id and writes
\* nothing, so the parent SplitPlaneNormal refers to the item leaf itself; a
\* root call on exactly one index writes a Descendants holding it when
\* dimensions >= 1 and the id after the item's can be allocated, and else
\* panics with nothing written.
C23_SingletonCallsWhenAllocated ==
    call.fn = "make_tree" =>
        /\ SingletonSidesAreLeaves
        /\ SingletonSidesWriteNothing
        /\ (Returned /\ DbLen(prev) = 1) =>
              IF call.dimensions >= 1 /\ last_node_id(prev) < U32_MAX
              THEN SingleRootDescendants
              ELSE call.status = "panic" /\ database = prev

C23_Witness ==
    /\ Returned
    /\ DbLen(prev) = 1
    /\ call.status = "ok"
    /\ database[call.id].kind = "Descendants"

\* The frames of the calls of make_tree under way
Frames == IF call.fn = "make_tree" THEN { call.stack[i] : i \in 1..Len(call.stack) } ELSE {}

\* The frames behind their retry loop, in the last-resort loop or about to
\* leave it
Broken == { f \in Frames : f.pc = "random" }

\* The frames behind both loops
Split == { f \in Frames : f.pc \in {"left", "go_right", "right", "write"} }

\* max(|L|,|R|) / (|L|+|R|) against hundredths / 100
Larger(p) == IF Len(p.left) >= Len(p.right) THEN Len(p.left) ELSE Len(p.right)

Under(p, hundredths) == 100 * Larger(p) < hundredths * (Len(p.left) + Len(p.right))

Over(p, hundredths) == 100 * Larger(p) > hundredths * (Len(p.left) + Len(p.right))

\* left and right together hold each index exactly once
EachIndexOnce(indices, p) ==
    /\ Len(p.left) + Len(p.right) = Len(indices)
    /\ \A i \in 1..Len(indices) :
         Occurrences(p.left \o p.right, indices[i], Len(p.left) + Len(p.right)) = 1

\* C24: in one make_tree call that builds a split create_split is run at most
\* 4 times; the loop stops at the first attempt whose partition has imbalance
\* < 0.95 and otherwise keeps the plane and the partition of the 4th attempt;
\* left and right are rebuilt on every attempt and together hold each index
\* exactly once.
C24_AtMostFourAttempts ==
    \A f \in Frames :
        /\ f.runs <= 4
        /\ (f.pc = "retry" /\ f.runs > 0) => (f.runs < 4 /\ ~Under(f.m, 95))
        /\ f \in Broken => (Under(f.kept, 95) \/ f.runs = 4)
        /\ f.runs > 0 => EachIndexOnce(f.indices, f.m)
        /\ f \in Broken => EachIndexOnce(f.indices, f.kept)

\* The 4th attempt kept although it is no better than the three before
C24_Witness ==
    \E f \in Broken : f.runs = 4 /\ ~Under(f.kept, 95)

AllZero(normal) == \A k \in 1..Len(normal) : normal[k] = 0

\* C25: when the partition kept after the retry loop has imbalance > 0.99 the
\* normal is set to all zeros and every index gets a random side until the
\* imbalance is <= 0.99; every SplitPlaneNormal written has a partition with
\* imbalance <= 0.99 and neither side empty, and its normal is all-zero or the
\* one of the kept create_split attempt.
C25_RandomSidesWhenUnbalanced ==
    /\ \A f \in Broken :
         /\ EachIndexOnce(f.indices, f.m)
         /\ f.m = f.kept \/ (Over(f.kept, 99) /\ AllZero(f.m.normal))
         /\ ~Over(f.m, 99) => (Over(f.kept, 99) => AllZero(f.m.normal))
    /\ \A f \in Split :
         /\ ~Over(f.m, 99)
         /\ Len(f.m.left) > 0 /\ Len(f.m.right) > 0
         /\ EachIndexOnce(f.indices, f.m)
    /\ call.fn = "make_tree" =>
         \A id \in Written :
             database[id].kind = "SplitPlaneNormal" =>
                 LET p == [left |-> Terminals(database, database[id].left),
                           right |-> Terminals(database, database[id].right)]
                 IN ~Over(p, 99) /\ Len(p.left) > 0 /\ Len(p.right) > 0

\* A split that went through the last-resort loop
C25_Witness ==
    \E f \in Broken : Over(f.kept, 99) /\ ~Over(f.m, 99) /\ AllZero(f.m.normal)

\* Every call under way but the root's has a non-empty index set smaller than
\* its caller's
SmallerSides ==
    call.fn = "make_tree" =>
        \A i \in 2..Len(call.stack) :
            /\ Len(call.stack[i].indices) > 0
            /\ Len(call.stack[i].indices) < Len(call.stack[i - 1].indices)

\* C26: with dimensions >= 1 and fair random side draws every make_tree call on
\* a non-empty item set terminates: the random-side loop ends with imbalance
\* <= 0.99, and each recursive call receives a non-empty index set strictly
\* smaller than its parent's.
C26_MakeTreeTerminates ==
    /\ []SmallerSides
    /\ (Running /\ call.dimensions >= 1) ~> Returned

\* A tree grown through the last-resort loop to its end
C26_Witness ==
    /\ Returned
    /\ call.dimensions >= 1
    /\ call.status = "ok"
    /\ database[call.id].kind = "SplitPlaneNormal"
    /\ AllZero(database[call.id].normal)

SideReturned == call.fn = "side" /\ call.returned # "none"

\* C27 as stated: side returns Right when the margin is > 0, Left when it is
\* < 0, and a random side only when the margin is exactly 0; against an
\* all-zero normal every leaf gets a random side, and the random source is not
\* consumed when the margin is non-zero.
C27_RandomOnlyOnZeroMargin ==
    SideReturned =>
        /\ f32_gt(call.dot, 0) => call.returned = "Right"
        /\ f32_lt(call.dot, 0) => call.returned = "Left"
        /\ call.drawn = 1 => call.dot = 0
        /\ AllZero(call.normal_plane) => (call.drawn = 1 /\ call.returned = call.random)
        /\ call.dot # 0 => call.drawn = 0

\* C27: side returns Right when the margin is > 0, Left when it is < 0, and a
\* random side when the margin is neither, that is exactly 0 or NaN; against
\* an all-zero normal every leaf gets a random side, and the random source is
\* consumed exactly when the margin is 0 or NaN.
C27_RandomOnZeroOrNaNMargin ==
    SideReturned =>
        /\ f32_gt(call.dot, 0) => (call.returned = "Right" /\ call.drawn = 0)
        /\ f32_lt(call.dot, 0) => (call.returned = "Left" /\ call.drawn = 0)
        /\ call.dot \in {0, NaN} => (call.returned = call.random /\ call.drawn = 1)
        /\ AllZero(call.normal_plane) => (call.drawn = 1 /\ call.returned = call.random)

\* A NaN margin answered with the draw
C27_Witness ==
    /\ SideReturned
    /\ call.dot = NaN
    /\ call.drawn = 1
    /\ call.returned = "Right"

Pushed_child == call.fn = "pq_distance" /\ call.depth > 0

\* C28: pq_distance(d, m, Left) = min(-m, d) and pq_distance(d, m, Right) =
\* min(m, d), so the score pushed for either child never exceeds the score d
\* of the popped parent, and the queue key is non-increasing along every
\* root-to-leaf path of the traversal, starting from +infinity at each root.
C28_ScoresNeverGrow ==
    Pushed_child =>
        /\ call.score <= call.distance
        /\ call.distance <= Infinity
        /\ call.margin # NaN =>
             LET m == IF call.side = "Left" THEN 0 - call.margin ELSE call.margin
             IN call.score = IF m <= call.distance THEN m ELSE call.distance
        /\ call.margin = NaN => call.score = call.distance

\* Two pushes deep, each below the one before
C28_Witness ==
    /\ Pushed_child
    /\ call.depth >= 2
    /\ call.distance < Infinity
    /\ call.score < call.distance

====
